---- MODULE Spec2Model ----
(***************************************************************************)
(* Coin-flip simulator (src/app.py): the three statistical helpers         *)
(* flip_coin, calculate_statistics and perform_binomial_test, and the      *)
(* Streamlit front-end that stores the last trial sequence in the session  *)
(* store and redraws the page on every script run.                         *)
(*                                                                         *)
(* Numbers: Python floats are modelled by exact rationals [num, den].      *)
(* A binomial probability with parameters (n, p = a/b) is kept as an       *)
(* integer weight over the common denominator b^n, so every comparison of  *)
(* the code is an exact integer comparison.  Floating-point rounding is    *)
(* not modelled.                                                           *)
(***************************************************************************)
EXTENDS Integers, Sequences, FiniteSets, TLC

VARIABLES
    n_flips,        \* value of the "Número de lanzamientos" slider
    probability,    \* value of the "Probabilidad de Cara" slider
    session_state,  \* st.session_state: a function from the stored keys
    page,           \* what the last script run displayed
    event,          \* the front-end event that triggered the last script run,
                    \* and whether a sequence was stored when it arrived
    has_binomtest,  \* whether the installed SciPy provides stats.binomtest
    call,           \* SpecFn: the helper call made last, with its arguments
    ret             \* SpecFn: what that call produced

vars == <<n_flips, probability, session_state, page, event, has_binomtest, call, ret>>

----------------------------------------------------------------------------
(* Bounds of the model *)

\* largest slider position explored (the slider itself goes to SliderMax)
MaxFlips == 4
\* longest sequence / largest count handed to a helper in SpecFn
MaxLen == 4
\* largest n_total handed to perform_binomial_test in SpecFn
MaxN == 10
\* largest common denominator b^n of a binomial distribution that is explored
WeightLimit == 50000000

----------------------------------------------------------------------------
(* Program constants *)

SliderMin == 1
SliderMax == 1000
SliderDefault == 10
\* relative tolerance of scipy.stats.binomtest, rerr = 1 + 1e-7 = RerrNum/RerrDen
RerrDen == 10000000

Min(a, b) == IF a <= b THEN a ELSE b

Rat(n, d) == [num |-> n, den |-> d]

RECURSIVE GCD(_, _)
GCD(a, b) == IF b = 0 THEN a ELSE GCD(b, a % b)

\* a rational in lowest terms (0 is 0/1)
Norm(n, d) == IF n = 0 THEN Rat(0, 1) ELSE Rat(n \div GCD(n, d), d \div GCD(n, d))

\* a Python int / a Python float passed as a count
PyInt(n) == [type |-> "int", val |-> n]
PyFloat(n) == [type |-> "float", val |-> n]

Outcomes == {"Cara", "Cruz"}

\* fault variant: a slider whose min_value is 0
CountChoicesFromZero == 0 .. Min(SliderMax, MaxFlips)

\* the positions the count slider is moved to (min_value..max_value, step 1)
CountChoices == SliderMin .. Min(SliderMax, MaxFlips)

\* the positions the probability slider is moved to (0.0 .. 1.0, step 0.01)
ProbChoices == {Rat(0, 100), Rat(30, 100), Rat(50, 100), Rat(100, 100)}

\* the default of perform_binomial_test's parameter p
DefaultP == Rat(1, 2)

----------------------------------------------------------------------------
(* flip_coin *)

Raise(e) == [kind |-> "error", error |-> e]
Return(v) == [kind |-> "ok", value |-> v]

\* fault variant: np.random.choice without the check of the weights
np_random_choice_unchecked(a, size, p) ==
    IF size.type # "int"
    THEN {Raise("TypeError")}
    ELSE IF size.val < 0
    THEN {Raise("ValueError")}
    ELSE {Return(s) : s \in [1 .. size.val -> {a[i] : i \in {j \in DOMAIN a : p[j].num > 0}}]}

\* np.random.choice(a, size=size, p=p) with replacement: the set of outcomes
\* it can produce.  p is the list of weights; a weight below 0 is refused, a
\* float or negative size is refused when the sample array is allocated, and
\* an entry of weight 0 is never drawn.
np_random_choice(a, size, p) ==
    IF \E i \in DOMAIN p : p[i].num < 0
    THEN {Raise("ValueError")}
    ELSE IF size.type # "int"
    THEN {Raise("TypeError")}
    ELSE IF size.val < 0
    THEN {Raise("ValueError")}
    ELSE {Return(s) : s \in [1 .. size.val -> {a[i] : i \in {j \in DOMAIN a : p[j].num > 0}}]}

\* fault variant: flip_coin drawing one outcome too few (size = n_flips - 1)
flip_coin_short(n, prob) ==
    np_random_choice(<<"Cara", "Cruz">>, [n EXCEPT !.val = @ - 1],
                     <<prob, Rat(prob.den - prob.num, prob.den)>>)

\* flip_coin(n_flips, probability): the set of results one call can have
flip_coin(n, prob) ==
    np_random_choice(<<"Cara", "Cruz">>, n, <<prob, Rat(prob.den - prob.num, prob.den)>>)

----------------------------------------------------------------------------
(* calculate_statistics *)

\* list.count(x)
Count(results, x) == Cardinality({i \in DOMAIN results : results[i] = x})

\* fault variant: the tails label misspelt in the count
calculate_statistics_typo(results) ==
    [total |-> Len(results),
     caras |-> Count(results, "Cara"),
     cruces |-> Count(results, "cruz"),
     porcentaje_caras |-> Rat(0, 1),
     porcentaje_cruces |-> Rat(0, 1)]

calculate_statistics(results) ==
    LET total == Len(results)
        caras == Count(results, "Cara")
        cruces == Count(results, "Cruz")
    IN  [total |-> total,
         caras |-> caras,
         cruces |-> cruces,
         porcentaje_caras |-> IF total > 0 THEN Norm(caras * 100, total) ELSE Rat(0, 1),
         porcentaje_cruces |-> IF total > 0 THEN Norm(cruces * 100, total) ELSE Rat(0, 1)]

----------------------------------------------------------------------------
(* scipy.stats.binom, as integer weights over the denominator den^n *)

RECURSIVE Pow(_, _)
Pow(b, e) == IF e = 0 THEN 1 ELSE b * Pow(b, e - 1)

\* b^e <= lim, computed without forming b^e
RECURSIVE PowFits(_, _, _)
PowFits(b, e, lim) == IF e = 0 THEN lim >= 1 ELSE PowFits(b, e - 1, lim \div b)

RECURSIVE Choose(_, _)
Choose(n, k) ==
    IF k < 0 \/ k > n THEN 0
    ELSE IF k = 0 \/ k = n THEN 1
    ELSE Choose(n - 1, k - 1) + Choose(n - 1, k)

\* the denominator shared by every probability of binomial(n, p)
binom_total(n, p) == Pow(p.den, n)

\* binom.pmf(k, n, p) * binom_total(n, p)
binom_pmf(k, n, p) ==
    IF k < 0 \/ k > n THEN 0
    ELSE Choose(n, k) * Pow(p.num, k) * Pow(p.den - p.num, n - k)

RECURSIVE SumPmf(_, _, _, _)
SumPmf(lo, hi, n, p) ==
    IF lo > hi THEN 0 ELSE binom_pmf(lo, n, p) + SumPmf(lo + 1, hi, n, p)

\* binom.cdf(k, n, p) * binom_total(n, p)
binom_cdf(k, n, p) ==
    IF k < 0 THEN 0
    ELSE IF k >= n THEN binom_total(n, p)
    ELSE SumPmf(0, k, n, p)

\* binom.sf(k, n, p) * binom_total(n, p)
binom_sf(k, n, p) == binom_total(n, p) - binom_cdf(k, n, p)

\* fault variant: the largest k whose cdf is at most q (0 when there is none)
binom_ppf_below(q, n, p) ==
    LET S == {k \in 0 .. n : binom_cdf(k, n, p) * q.den <= q.num * binom_total(n, p)}
    IN  IF S = {} THEN 0 ELSE CHOOSE k \in S : \A j \in S : j <= k

\* binom.ppf(q, n, p): the smallest k whose cdf is at least q
binom_ppf(q, n, p) ==
    CHOOSE k \in 0 .. n :
        /\ binom_cdf(k, n, p) * q.den >= q.num * binom_total(n, p)
        /\ \A j \in 0 .. k - 1 : binom_cdf(j, n, p) * q.den < q.num * binom_total(n, p)

\* fault variant: the upper bound taken at the confidence level itself
binom_interval_upper(confidence, n, p) ==
    <<binom_ppf(Rat(confidence.den - confidence.num, 2 * confidence.den), n, p),
      binom_ppf(confidence, n, p)>>

\* stats.binom.interval(confidence, n, p): the equal-tailed interval
\* (ppf((1 - confidence)/2), ppf((1 + confidence)/2))
binom_interval(confidence, n, p) ==
    <<binom_ppf(Rat(confidence.den - confidence.num, 2 * confidence.den), n, p),
      binom_ppf(Rat(confidence.den + confidence.num, 2 * confidence.den), n, p)>>

----------------------------------------------------------------------------
(* perform_binomial_test *)

\* w <= d * rerr with rerr = 1 + 1/RerrDen (w - d is an integer, so this is
\* w - d <= floor(d / RerrDen))
WithinRerr(w, d) == w - d <= d \div RerrDen

\* the sum of the weights binom_pmf(i) of lo..hi that are at most d * rerr
RECURSIVE SumPmfWithin(_, _, _, _, _)
SumPmfWithin(lo, hi, n, p, d) ==
    IF lo > hi THEN 0
    ELSE (IF WithinRerr(binom_pmf(lo, n, p), d) THEN binom_pmf(lo, n, p) ELSE 0)
         + SumPmfWithin(lo + 1, hi, n, p, d)

\* fault variant: a one-sided p-value (alternative='less')
binomtest_pvalue_less(k, n, p) == binom_cdf(k, n, p)

\* the two-sided p-value of scipy.stats.binomtest, times binom_total(n, p):
\* the observed tail plus, on the other side of the mean, every outcome that
\* is no more likely than the observed one
binomtest_pvalue(k, n, p) ==
    LET d == binom_pmf(k, n, p)
        T == binom_total(n, p)
    IN  IF k * p.den = n * p.num THEN T
        ELSE IF k * p.den < n * p.num
        THEN Min(T, binom_cdf(k, n, p)
                    + SumPmfWithin((n * p.num + p.den - 1) \div p.den, n, n, p, d))
        ELSE Min(T, SumPmfWithin(0, (n * p.num) \div p.den, n, p, d)
                    + binom_sf(k - 1, n, p))

\* fault variant: binomtest without the check n >= 1
stats_binomtest_unchecked(k, n, p) ==
    IF k < 0 \/ k > n \/ p.num < 0 \/ p.num > p.den
    THEN Raise("ValueError")
    ELSE Return(binomtest_pvalue(k, n, p))

\* stats.binomtest(k, n, p, alternative='two-sided').pvalue, with the
\* argument checks binomtest makes before computing
stats_binomtest(k, n, p) ==
    IF k < 0 \/ n < 1 \/ k > n \/ p.num < 0 \/ p.num > p.den
    THEN Raise("ValueError")
    ELSE Return(binomtest_pvalue(k, n, p))

\* the except AttributeError branch: the doubled one-sided tail, capped at 1
manual_pvalue(n_caras, n_total, p) ==
    Min(IF n_caras * p.den <= n_total * p.num
        THEN 2 * binom_cdf(n_caras, n_total, p)
        ELSE 2 * (binom_total(n_total, p) - binom_cdf(n_caras - 1, n_total, p)),
        binom_total(n_total, p))

\* the p-value step of perform_binomial_test: binomtest when SciPy has it
\* (an error other than AttributeError propagates), else the manual formula
p_value_step(n_caras, n_total, p) ==
    IF has_binomtest
    THEN stats_binomtest(n_caras, n_total, p)
    ELSE Return(manual_pvalue(n_caras, n_total, p))

perform_binomial_test(n_caras, n_total, p) ==
    LET pv == p_value_step(n_caras, n_total, p)
    IN  IF pv.kind = "error" THEN pv
        ELSE [kind |-> "ok",
              p_value |-> Rat(pv.value, binom_total(n_total, p)),
              is_fair |-> pv.value * 20 > binom_total(n_total, p),
              confidence_interval |-> binom_interval(Rat(19, 20), n_total, p)]

----------------------------------------------------------------------------
(* The front-end: one script run per event *)

\* st.session_state[key] = value
SetItem(s, key, value) ==
    [k \in DOMAIN s \cup {key} |-> IF k = key THEN value ELSE s[k]]

\* del st.session_state[key]
DelItem(s, key) == [k \in DOMAIN s \ {key} |-> s[k]]

EmptySession == [k \in {} |-> 0]

NoCall == [kind |-> "none"]

\* an uncaught exception ends the script run; Streamlit shows the error
ErrorPage(e) == [view |-> "error", error |-> e, test_call |-> NoCall]

\* fault variant: the flip handler storing the sequence without its summary
FlipHandlerNoStats(s, r) ==
    IF r.kind = "error" THEN s ELSE SetItem(s, "results", r.value)

\* the "Lanzar Moneda" handler with r the outcome of flip_coin: nothing is
\* stored when flip_coin raises
FlipHandler(s, r) ==
    IF r.kind = "error" THEN s
    ELSE SetItem(SetItem(s, "results", r.value), "stats", calculate_statistics(r.value))

\* fault variant: the clear handler deleting nothing
ClearHandlerKeeps(s) == [store |-> s, raised |-> FALSE]

\* the "Limpiar Resultados" handler up to st.rerun(): [store, raised]
ClearHandler(s) ==
    IF "results" \in DOMAIN s
    THEN IF "stats" \in DOMAIN s
         THEN [store |-> DelItem(DelItem(s, "results"), "stats"), raised |-> FALSE]
         ELSE [store |-> DelItem(s, "results"), raised |-> TRUE]
    ELSE [store |-> s, raised |-> FALSE]

\* the display part of the script: the results page, which always runs the
\* binomial test on the stored summary, or the initial prompt
Display(s) ==
    IF "results" \in DOMAIN s
    THEN IF "stats" \notin DOMAIN s THEN ErrorPage("KeyError")
         ELSE LET stats_data == s["stats"]
                  test_results == perform_binomial_test(stats_data.caras, stats_data.total, DefaultP)
              IN  IF test_results.kind = "error" THEN
                      [view |-> "error", error |-> test_results.error,
                       test_call |-> [kind |-> "call", n_caras |-> stats_data.caras,
                                      n_total |-> stats_data.total]]
                  ELSE
                      [view |-> "results",
                       results |-> s["results"],
                       total |-> stats_data.total,
                       caras |-> stats_data.caras,
                       cruces |-> stats_data.cruces,
                       test_call |-> [kind |-> "call", n_caras |-> stats_data.caras,
                                      n_total |-> stats_data.total],
                       test_results |-> test_results]
    ELSE [view |-> "initial", test_call |-> NoCall]

Idle == [fn |-> "none"]

\* an event and whether 'results' was in the store when it arrived
Event(name, s) == [name |-> name, stored |-> "results" \in DOMAIN s]

\* the first script run of a session: the sliders at their defaults (the count
\* slider at value=10, or at the top of the explored range when that is
\* lower), nothing stored, the initial prompt displayed
Init ==
    /\ n_flips = Min(SliderDefault, MaxFlips)
    /\ probability = Rat(50, 100)
    /\ session_state = EmptySession
    /\ page = Display(EmptySession)
    /\ event = Event("load", EmptySession)
    /\ has_binomtest \in BOOLEAN
    /\ call = Idle
    /\ ret = Idle

\* the count slider is moved: a script run with no button pressed
MoveCountSlider(n) ==
    /\ n # n_flips
    /\ n_flips' = n
    /\ event' = Event("count", session_state)
    /\ page' = Display(session_state)
    /\ UNCHANGED <<probability, session_state, has_binomtest, call, ret>>

\* the probability slider is moved: a script run with no button pressed
MoveProbabilitySlider(p) ==
    /\ p # probability
    /\ probability' = p
    /\ event' = Event("probability", session_state)
    /\ page' = Display(session_state)
    /\ UNCHANGED <<n_flips, session_state, has_binomtest, call, ret>>

\* "Lanzar Moneda" is pressed: flip, summarise, store, display
PressFlip ==
    \E r \in flip_coin(PyInt(n_flips), probability) :
        /\ session_state' = FlipHandler(session_state, r)
        /\ page' = IF r.kind = "error" THEN ErrorPage(r.error)
                   ELSE Display(FlipHandler(session_state, r))
        /\ event' = Event("flip", session_state)
        /\ UNCHANGED <<n_flips, probability, has_binomtest, call, ret>>

\* "Limpiar Resultados" is pressed: delete both keys, st.rerun(), and the
\* rerun's display
PressClear ==
    /\ session_state' = ClearHandler(session_state).store
    /\ page' = IF ClearHandler(session_state).raised THEN ErrorPage("KeyError")
               ELSE Display(ClearHandler(session_state).store)
    /\ event' = Event("clear", session_state)
    /\ UNCHANGED <<n_flips, probability, has_binomtest, call, ret>>

\* any other script run (a download click, a manual rerun): display only
Rerun ==
    /\ page' = Display(session_state)
    /\ event' = Event("rerun", session_state)
    /\ UNCHANGED <<n_flips, probability, session_state, has_binomtest, call, ret>>

Next ==
    \/ \E n \in CountChoices : MoveCountSlider(n)
    \/ \E p \in ProbChoices : MoveProbabilitySlider(p)
    \/ PressFlip
    \/ PressClear
    \/ Rerun

Spec == Init /\ [][Next]_vars

----------------------------------------------------------------------------
(* The helpers called directly, on inputs drawn from bounded sets: one call *)
(* per behaviour, its arguments in call and its outcome in ret               *)

\* counts handed to flip_coin: ints from -1 up, and a float (any float count
\* is treated alike; val is its integer part)
CountInputs == {PyInt(v) : v \in -1 .. MaxLen} \cup {PyFloat(2)}

\* heads probabilities handed to flip_coin, inside and outside [0, 1]
ProbInputs == ProbChoices \cup {Rat(-50, 100), Rat(150, 100)}

\* expected probabilities handed to perform_binomial_test
TestProbs == {Rat(1, 2), Rat(3, 10), Rat(49, 50)}

\* binomial(n, p) fits the integers of the model
Fits(n, p) == PowFits(p.den, n, WeightLimit)

FrontEndIdle == UNCHANGED <<n_flips, probability, session_state, page, event, has_binomtest>>

CallFlipCoin ==
    \E c \in CountInputs, p \in ProbInputs :
        \E r \in flip_coin(c, p) :
            /\ call = Idle
            /\ call' = [fn |-> "flip_coin", n_flips |-> c, probability |-> p]
            /\ ret' = r
            /\ FrontEndIdle

CallCalculateStatistics ==
    \E n \in 0 .. MaxLen :
        \E results \in [1 .. n -> Outcomes] :
            /\ call = Idle
            /\ call' = [fn |-> "calculate_statistics", results |-> results]
            /\ ret' = calculate_statistics(results)
            /\ FrontEndIdle

CallPerformBinomialTest ==
    \E n \in 0 .. MaxN, k \in 0 .. MaxN, p \in TestProbs :
        /\ call = Idle
        /\ Fits(n, p)
        /\ call' = [fn |-> "perform_binomial_test", n_caras |-> k, n_total |-> n, p |-> p]
        /\ ret' = perform_binomial_test(k, n, p)
        /\ FrontEndIdle

NextFn ==
    \/ CallFlipCoin
    \/ CallCalculateStatistics
    \/ CallPerformBinomialTest

SpecFn == Init /\ [][NextFn]_vars

----------------------------------------------------------------------------
(* Properties of flip_coin and calculate_statistics *)

IsFlipCall == call.fn = "flip_coin"
ValidCount == call.n_flips.type = "int" /\ call.n_flips.val >= SliderMin /\ call.n_flips.val <= SliderMax
ValidProbability == call.probability.num >= 0 /\ call.probability.num <= call.probability.den

\* C1: for a valid count N and a heads probability in [0,1], flip_coin
\* returns exactly N outcomes, each 'Cara' or 'Cruz'.
C1_FlipCoinLength ==
    (IsFlipCall /\ ValidCount /\ ValidProbability) =>
        /\ ret.kind = "ok"
        /\ Len(ret.value) = call.n_flips.val
        /\ \A i \in DOMAIN ret.value : ret.value[i] \in Outcomes

C1_Witness ==
    /\ IsFlipCall /\ ValidCount /\ ValidProbability
    /\ call.n_flips.val = MaxLen
    /\ ret.kind = "ok"
    /\ {ret.value[i] : i \in DOMAIN ret.value} = Outcomes

\* C2: for every trial sequence, the empty one included, the heads count plus
\* the tails count returned by calculate_statistics equals the total.
C2_CountsSumToTotal ==
    call.fn = "calculate_statistics" => ret.caras + ret.cruces = ret.total

C2_Witness ==
    /\ call.fn = "calculate_statistics"
    /\ ret.total = MaxLen
    /\ ret.caras >= 1
    /\ ret.cruces >= 1

\* C3 as stated: a count <= 0, a non-integer count or a probability outside
\* [0,1] makes flip_coin fail, with no sequence returned.
C3_Original ==
    (IsFlipCall /\ (call.n_flips.type # "int" \/ call.n_flips.val <= 0 \/ ~ValidProbability)) =>
        ret.kind = "error"

\* C3 as amended: a negative count, a non-integer count or a probability
\* outside [0,1] makes flip_coin fail, with no sequence returned; a count of 0
\* with a probability in [0,1] is accepted and returns the empty sequence.
C3_FlipCoinRejects ==
    IsFlipCall =>
        /\ (call.n_flips.type # "int" \/ call.n_flips.val < 0 \/ ~ValidProbability) =>
              (ret.kind = "error" /\ "value" \notin DOMAIN ret)
        /\ (call.n_flips = PyInt(0) /\ ValidProbability) => ret = Return(<<>>)

C3_Witness ==
    /\ IsFlipCall
    /\ call.n_flips = PyInt(-1)
    /\ ValidProbability
    /\ ret.kind = "error"

----------------------------------------------------------------------------
(* Properties of perform_binomial_test *)

IsTestCall == call.fn = "perform_binomial_test"
ValidTestCall == IsTestCall /\ call.n_total >= 1 /\ call.n_caras >= 0 /\ call.n_caras <= call.n_total
IsHalf(p) == 2 * p.num = p.den

\* C4 as stated: perform_binomial_test with n_total = 0 ends in an error and
\* never returns a result dictionary.
C4_Original ==
    (IsTestCall /\ call.n_total = 0) => ret.kind = "error"

\* C4 as amended: with n_total = 0 the call fails (ValueError from binomtest)
\* when SciPy provides binomtest; on the manual fallback path it returns a
\* result dictionary, with p-value 1 and verdict fair for n_caras = 0.
C4_ZeroTotal ==
    (IsTestCall /\ call.n_total = 0) =>
        /\ has_binomtest => ret = Raise("ValueError")
        /\ ~has_binomtest => ret.kind = "ok"
        /\ (~has_binomtest /\ call.n_caras = 0) => (ret.p_value = Rat(1, 1) /\ ret.is_fair)

C4_Witness ==
    /\ IsTestCall
    /\ call.n_total = 0
    /\ call.n_caras = 0
    /\ has_binomtest
    /\ ret.kind = "error"

\* the doubling formula of the claim, times binom_total(n, p)
DoublingFormula(k, n, p) ==
    IF k * p.den <= n * p.num
    THEN Min(binom_total(n, p), 2 * binom_cdf(k, n, p))
    ELSE Min(binom_total(n, p), 2 * (binom_total(n, p) - binom_cdf(k - 1, n, p)))

\* C5 as stated: for n_total >= 1, 0 <= n_caras <= n_total and every p the
\* p-value is the doubling formula, on the binomtest path and on the fallback.
C5_Original ==
    ValidTestCall =>
        /\ ret.kind = "ok"
        /\ ret.p_value = Rat(DoublingFormula(call.n_caras, call.n_total, call.p),
                             binom_total(call.n_total, call.p))

\* C5 as amended: the p-value is the doubling formula on the fallback path for
\* every p, and on the binomtest path for p = 0.5; n_caras = 0, n_total = 10,
\* p = 0.5 gives 2 * 0.5^10 and the verdict not fair on both paths.
C5_DoublingAtHalf ==
    ValidTestCall =>
        /\ ret.kind = "ok"
        /\ (~has_binomtest \/ IsHalf(call.p)) =>
              ret.p_value = Rat(DoublingFormula(call.n_caras, call.n_total, call.p),
                                binom_total(call.n_total, call.p))
        /\ (call.n_caras = 0 /\ call.n_total = 10 /\ IsHalf(call.p)) =>
              (ret.p_value = Rat(2, 1024) /\ ~ret.is_fair)

C5_Witness ==
    /\ ValidTestCall
    /\ has_binomtest
    /\ call.n_caras = 0 /\ call.n_total = 10 /\ IsHalf(call.p)
    /\ ret.p_value = Rat(2, 1024)
    /\ ~ret.is_fair

\* the mass of lo..hi under binomial(n, p), times binom_total(n, p)
Mass(lo, hi, n, p) == binom_cdf(hi, n, p) - binom_cdf(lo - 1, n, p)

\* at least 95% of the mass
Covers95(lo, hi, n, p) == 20 * Mass(lo, hi, n, p) >= 19 * binom_total(n, p)

\* C6 as stated: the interval has mass >= 95% and no interval of integer
\* counts of smaller width has.
C6_Original ==
    (IsTestCall /\ call.n_total >= 1 /\ ret.kind = "ok") =>
        LET lo == ret.confidence_interval[1]
            hi == ret.confidence_interval[2]
        IN  /\ Covers95(lo, hi, call.n_total, call.p)
            /\ \A a \in 0 .. call.n_total, b \in 0 .. call.n_total :
                  (a <= b /\ b - a < hi - lo) => ~Covers95(a, b, call.n_total, call.p)

\* C6 as amended: the interval is the equal-tailed one, lo the smallest count
\* whose CDF is >= 0.025 and hi the smallest count whose CDF is >= 0.975; its
\* mass is >= 95%.
C6_EqualTailed ==
    (IsTestCall /\ call.n_total >= 1 /\ ret.kind = "ok") =>
        LET lo == ret.confidence_interval[1]
            hi == ret.confidence_interval[2]
            n == call.n_total
            T == binom_total(call.n_total, call.p)
        IN  /\ lo \in 0 .. n /\ hi \in 0 .. n
            /\ 40 * binom_cdf(lo, n, call.p) >= T
            /\ 40 * binom_cdf(lo - 1, n, call.p) < T
            /\ 40 * binom_cdf(hi, n, call.p) >= 39 * T
            /\ 40 * binom_cdf(hi - 1, n, call.p) < 39 * T
            /\ Covers95(lo, hi, n, call.p)

C6_Witness ==
    /\ ValidTestCall
    /\ call.n_total = 5 /\ IsHalf(call.p)
    /\ ret.kind = "ok"
    /\ ret.confidence_interval = <<0, 5>>
    /\ Covers95(0, 4, 5, call.p)

\* the interval contains the expected mean n * p
ContainsMean(ci, n, p) == ci[1] * p.den <= n * p.num /\ n * p.num <= ci[2] * p.den

\* the interval of n is not above the interval of n + 1
NotAboveNext(ci, n, p) ==
    Fits(n + 1, p) =>
        /\ ci[1] <= binom_interval(Rat(19, 20), n + 1, p)[1]
        /\ ci[2] <= binom_interval(Rat(19, 20), n + 1, p)[2]

\* C7 as stated: for fixed p the bounds are non-decreasing in n_total, and
\* for every n_total >= 1 the interval contains n_total * p.
C7_Original ==
    (IsTestCall /\ call.n_total >= 1 /\ ret.kind = "ok") =>
        /\ NotAboveNext(ret.confidence_interval, call.n_total, call.p)
        /\ ContainsMean(ret.confidence_interval, call.n_total, call.p)

\* C7 as amended: for fixed p the bounds are non-decreasing in n_total and
\* lo <= hi; for p = 0.5 the interval contains n_total * p.
C7_MonotoneBounds ==
    (IsTestCall /\ call.n_total >= 1 /\ ret.kind = "ok") =>
        /\ NotAboveNext(ret.confidence_interval, call.n_total, call.p)
        /\ ret.confidence_interval[1] <= ret.confidence_interval[2]
        /\ IsHalf(call.p) => ContainsMean(ret.confidence_interval, call.n_total, call.p)

C7_Witness ==
    /\ ValidTestCall
    /\ call.n_total = 6 /\ IsHalf(call.p)
    /\ ret.kind = "ok"
    /\ ret.confidence_interval = <<1, 5>>
    /\ binom_interval(Rat(19, 20), 7, call.p) = <<1, 6>>

----------------------------------------------------------------------------
(* Properties of the front-end *)

HasResults == "results" \in DOMAIN session_state
HasStats == "stats" \in DOMAIN session_state

\* C8: perform_binomial_test is only ever invoked with n_total >= 1 and
\* 0 <= n_caras <= n_total, and only while a stored sequence of at least one
\* trial exists.
C8_TestOnlyOnTrials ==
    page.test_call.kind = "call" =>
        /\ page.test_call.n_total >= 1
        /\ page.test_call.n_caras >= 0
        /\ page.test_call.n_caras <= page.test_call.n_total
        /\ HasResults
        /\ Len(session_state["results"]) >= 1

C8_Witness ==
    /\ page.test_call.kind = "call"
    /\ page.test_call.n_total = 1
    /\ page.view = "results"
    /\ event.name = "flip"

\* C9: the session store holds 'results' and 'stats' both or neither, and the
\* stored 'stats' is calculate_statistics of the stored 'results'.
C9_StatsMatchResults ==
    /\ HasResults <=> HasStats
    /\ HasResults =>
          /\ session_state["stats"] = calculate_statistics(session_state["results"])
          /\ session_state["stats"].total = Len(session_state["results"])
          /\ session_state["stats"].caras = Count(session_state["results"], "Cara")
          /\ session_state["stats"].cruces = Count(session_state["results"], "Cruz")

C9_Witness ==
    /\ HasResults /\ HasStats
    /\ session_state["stats"].total = MaxFlips
    /\ session_state["stats"].caras >= 1
    /\ session_state["stats"].cruces >= 1

\* C10: a script run that presses no button leaves the store unchanged; a
\* flip stores a sequence whose length is the selected count; a clear leaves
\* the store empty and its display is the initial prompt, with no results and
\* no binomial test, also when nothing was stored.
C10_StoreLifecycle ==
    [][/\ event'.name \in {"count", "probability", "rerun"} => session_state' = session_state
       /\ event'.name = "flip" =>
             /\ "results" \in DOMAIN session_state'
             /\ Len(session_state'["results"]) = n_flips'
       /\ event'.name = "clear" =>
             /\ DOMAIN session_state' = {}
             /\ page'.view = "initial"
             /\ page'.test_call = NoCall]_vars

C10_Witness ==
    /\ event = [name |-> "clear", stored |-> TRUE]
    /\ DOMAIN session_state = {}
    /\ page.view = "initial"

====
